---- MODULE Spec2Model ----
(***************************************************************************)
(* A model of commoncode.filetype: the type predicates, get_type, the      *)
(* link predicates, the permission predicates, the date stamp and the      *)
(* memoized recursive counter (alone, with failing system calls, and       *)
(* called by two threads), over a small POSIX filesystem.                  *)
(*                                                                         *)
(* A path is a sequence of names relative to the working directory; the   *)
(* empty sequence is the empty string "".  Predicates that return a       *)
(* Python value used only for its truth (a bool, "" or None) are modelled *)
(* by that truth value.                                                    *)
(***************************************************************************)
EXTENDS Integers, Sequences, FiniteSets, TLC

(* ------------------------------- state ------------------------------- *)

VARIABLES
    fs,     \* the filesystem: entry -> what is there
    cache,  \* the memos of counter: (location, counting function) -> value
    last,   \* the last library call and the value it returned
    stored, \* the keys the last call added to the memos
    ncalls, \* counter calls made so far
    nmut,   \* changes of the tree made since the memos were first filled
    perms,  \* entry -> the permissions the caller has on it
    nchmod,       \* chmod calls made so far
    on_posix,     \* the platform flag commoncode.system.on_posix
    undecodable,  \* the links whose target os.readlink fails to encode
    mtime,        \* entry -> its modification time
    nutime,       \* utime calls made so far
    failing,      \* the entries os.scandir and os.path.getsize fail on
    threads       \* thread -> the counter calls it is in, innermost first

vars ==
    <<fs, cache, last, stored, ncalls, nmut, perms, nchmod, on_posix, undecodable,
      mtime, nutime, failing, threads>>

(* ------------------------------ bounds -------------------------------- *)

\* Largest byte length of a regular file.
MaxSize == 1

(* ------------------------- the filesystem ----------------------------- *)

\* The entries the filesystem may hold: r, r/a, r/s, r/s/b.
Entries == { <<"r">>, <<"r", "a">>, <<"r", "s">>, <<"r", "s", "b">> }

\* The locations callers pass to the counter and to the permission
\* predicates: every entry and the empty string.
PlainLocations == Entries \cup { <<>> }

\* The locations callers pass to the type predicates: those, and r/a/b,
\* which exists only through r/a being a link to a directory.
Locations == PlainLocations \cup { <<"r", "a", "b">> }

Names == { "r", "a", "s", "b" }

\* A link target as readlink returns it: relative to the link's directory,
\* or absolute.  An absolute target names a path below the working directory.
RelS == [abs |-> FALSE, comps |-> <<"s">>]
AbsR == [abs |-> TRUE, comps |-> <<"r">>]
Targets == { RelS, AbsR }

\* The empty string, as a link target.
EmptyTarget == [abs |-> FALSE, comps |-> <<>>]

Kinds == { "none", "file", "dir", "link", "fifo" }

NoEntry == [kind |-> "none", size |-> 0, target |-> EmptyTarget]
FileEntry(sz) == [kind |-> "file", size |-> sz, target |-> EmptyTarget]
DirEntry == [kind |-> "dir", size |-> 0, target |-> EmptyTarget]
LinkEntry(t) == [kind |-> "link", size |-> 0, target |-> t]
FifoEntry == [kind |-> "fifo", size |-> 0, target |-> EmptyTarget]

EntryValues ==
    { NoEntry, DirEntry, FifoEntry }
        \cup { FileEntry(sz) : sz \in 0..MaxSize }
        \cup { LinkEntry(t) : t \in Targets }

Front(p) == SubSeq(p, 1, Len(p) - 1)

\* An entry can exist only in the working directory or in a real directory.
ParentIsDir(f, p) == IF Len(p) = 1 THEN TRUE ELSE f[Front(p)].kind = "dir"

WellFormed(f) == \A p \in Entries : f[p].kind # "none" => ParentIsDir(f, p)

FileSystems == { f \in [Entries -> EntryValues] : WellFormed(f) }

\* The result of a failed lookup (ENOENT, ENOTDIR, ELOOP).
NoEnt == <<"ENOENT">>

\* More link hops than any chain without a cycle can make.
MaxHops == Cardinality(Entries) + 1

\* Path resolution as stat(2) does it: `cur` is the real directory reached so
\* far, `rest` the components left; every link met is followed.  The value is
\* the real path of the entry, or NoEnt.
RECURSIVE Walk(_, _, _, _)
Walk(f, cur, rest, hops) ==
    IF rest = <<>> THEN cur
    ELSE LET next == Append(cur, Head(rest)) IN
         IF next \notin Entries THEN NoEnt
         ELSE LET e == f[next] IN
              CASE e.kind = "none" -> NoEnt
                [] e.kind = "dir" -> Walk(f, next, Tail(rest), hops)
                [] e.kind = "link" ->
                     IF hops = 0 THEN NoEnt
                     ELSE Walk(f, IF e.target.abs THEN <<>> ELSE cur,
                               e.target.comps \o Tail(rest), hops - 1)
                [] OTHER -> IF Tail(rest) = <<>> THEN next ELSE NoEnt

\* os.stat(loc): the real entry `loc` names, links followed.
Stat(f, loc) == IF loc = <<>> THEN NoEnt ELSE Walk(f, <<>>, loc, MaxHops)

\* os.lstat(loc): the directory of `loc` is resolved, its last name is not.
Lstat(f, loc) ==
    IF loc = <<>> THEN NoEnt
    ELSE LET dir == Walk(f, <<>>, Front(loc), MaxHops) IN
         IF dir = NoEnt THEN NoEnt
         ELSE LET real == Append(dir, loc[Len(loc)]) IN
              IF real \in Entries /\ f[real].kind # "none" THEN real ELSE NoEnt

KindAt(f, real) == IF real \in Entries THEN f[real].kind
                   ELSE IF real = <<>> THEN "dir" ELSE "none"

os_path_islink(f, loc) == KindAt(f, Lstat(f, loc)) = "link"
os_path_isfile(f, loc) == KindAt(f, Stat(f, loc)) = "file"
os_path_isdir(f, loc) == loc # <<>> /\ KindAt(f, Stat(f, loc)) = "dir"
os_path_exists(f, loc) == Stat(f, loc) # NoEnt

\* The outcome of a call that may raise: the exception, or the value returned.
Return(val) == [exc |-> "none", val |-> val]

Raise(exc) == [exc |-> exc, val |-> FALSE]


\* os.readlink(loc)
os_readlink(f, loc) ==
    IF Lstat(f, loc) \in undecodable
    THEN Raise("UnicodeEncodeError")
    ELSE Return(f[Lstat(f, loc)].target)

\* os.path.dirname(loc)
os_path_dirname(loc) == Front(loc)

\* The target taken as it stands, from the working directory, whatever
\* directory holds the link.
os_path_join_target_only(dir, t) == t.comps

\* os.path.join(dir, target): an absolute second argument replaces the first.
os_path_join(dir, t) == IF t.abs THEN t.comps ELSE dir \o t.comps


(* ------------------------- type predicates ---------------------------- *)

is_link(f, loc) == loc # <<>> /\ os_path_islink(f, loc)

\* get_link_target as it would be without the try/except around readlink.
get_link_target_uncaught(f, loc) ==
    IF on_posix /\ is_link(f, loc) THEN os_readlink(f, loc) ELSE Return(EmptyTarget)

\* Only UnicodeEncodeError is caught; the target then stays the empty string.
get_link_target(f, loc) ==
    IF on_posix /\ is_link(f, loc)
    THEN LET r == os_readlink(f, loc)
         IN  IF r.exc = "UnicodeEncodeError" THEN Return(EmptyTarget) ELSE r
    ELSE Return(EmptyTarget)

\* The value returned is None, the empty string or a boolean: the model keeps
\* its truth value.
is_broken_link(f, loc) ==
    IF on_posix /\ is_link(f, loc)
    THEN LET r == get_link_target(f, loc)
             target == r.val
             target_loc == os_path_join(os_path_dirname(loc), target)
         IN  IF r.exc # "none" THEN r
             ELSE Return(target # EmptyTarget /\ ~os_path_exists(f, target_loc))
    ELSE Return(FALSE)

\* is_file as it would be if the link checks were left out.
is_file_follows(f, loc, follow_symlinks) == loc # <<>> /\ os_path_isfile(f, loc)

is_file(f, loc, follow_symlinks) ==
    LET _is_file == loc # <<>> /\ os_path_isfile(f, loc) IN
    IF follow_symlinks THEN _is_file
    ELSE _is_file /\ ~is_link(f, loc) /\ ~is_broken_link(f, loc).val

\* is_dir as it would be if the link checks were left out.
is_dir_follows(f, loc, follow_symlinks) ==
    loc # <<>> /\ os_path_isdir(f, loc) /\ ~is_file(f, loc, FALSE)

is_dir(f, loc, follow_symlinks) ==
    LET _is_dir == loc # <<>> /\ os_path_isdir(f, loc) /\ ~is_file(f, loc, FALSE) IN
    IF follow_symlinks THEN _is_dir
    ELSE _is_dir /\ ~is_link(f, loc) /\ ~is_broken_link(f, loc).val

is_regular(f, loc) == loc # <<>> /\ (is_file(f, loc, FALSE) \/ is_dir(f, loc, FALSE))

is_special(f, loc) == ~is_regular(f, loc)

\* The value get_type returns when no checker matches.
None == "None"

\* TYPES as it would be with the codes of files and directories exchanged.
TYPES_codes_swapped == << <<"is_link", "l", "link">>,
                          <<"is_file", "d", "directory">>,
                          <<"is_dir", "f", "file">>,
                          <<"is_special", "s", "special">> >>

\* TYPES as it would be with is_special entered first.
TYPES_special_first == << <<"is_special", "s", "special">>,
                          <<"is_link", "l", "link">>,
                          <<"is_file", "f", "file">>,
                          <<"is_dir", "d", "directory">> >>

\* TYPES in insertion order: checker, short code, long code.
TYPES == << <<"is_link", "l", "link">>,
            <<"is_file", "f", "file">>,
            <<"is_dir", "d", "directory">>,
            <<"is_special", "s", "special">> >>

type_checker(name, f, loc) ==
    CASE name = "is_link" -> is_link(f, loc)
      [] name = "is_file" -> is_file(f, loc, FALSE)
      [] name = "is_dir" -> is_dir(f, loc, FALSE)
      [] name = "is_special" -> is_special(f, loc)

\* get_type as it would be if the short code were returned whatever `short` is.
get_type_short_only(f, loc, short) ==
    IF loc = <<>> THEN None
    ELSE LET hits == { i \in 1..Len(TYPES) : type_checker(TYPES[i][1], f, loc) } IN
         IF hits = {} THEN None
         ELSE LET first == CHOOSE i \in hits : \A j \in hits : i <= j IN
              TYPES[first][2]

get_type(f, loc, short) ==
    IF loc = <<>> THEN None
    ELSE LET hits == { i \in 1..Len(TYPES) : type_checker(TYPES[i][1], f, loc) } IN
         IF hits = {} THEN None
         ELSE LET first == CHOOSE i \in hits : \A j \in hits : i <= j IN
              IF short THEN TYPES[first][2] ELSE TYPES[first][3]

(* ----------------------- permission predicates ------------------------ *)

R_OK == "r"
W_OK == "w"
X_OK == "x"

Modes == SUBSET { R_OK, W_OK, X_OK }

\* The caller may search every directory above the entry p.
Searchable(pm, p) ==
    \A n \in 1..(Len(p) - 1) : X_OK \in pm[SubSeq(p, 1, n)]

\* The tree as the caller finds it: a lookup below a directory the caller
\* may not search fails (EACCES), which os.path.isdir, isfile, islink and
\* exists report as they report an entry that is not there.
Seen(f, pm) == [p \in Entries |-> IF Searchable(pm, p) THEN f[p] ELSE NoEntry]

\* os.access as it would be if it tested for existence only (os.F_OK).
os_access_exists(f, pm, loc, mode) == Stat(Seen(f, pm), loc) \in Entries

\* os.access(loc, mode): the entry `loc` resolves to can be reached and
\* grants the caller every permission in `mode`; `pm` gives the permissions
\* the caller has on each entry.
os_access(f, pm, loc, mode) ==
    LET real == Stat(Seen(f, pm), loc) IN
    real \in Entries /\ mode \subseteq pm[real]

is_readable(f, pm, loc) ==
    IF loc = <<>> THEN FALSE
    ELSE IF is_dir(Seen(f, pm), loc, FALSE) THEN os_access(f, pm, loc, { R_OK, X_OK })
    ELSE os_access(f, pm, loc, { R_OK })

\* is_writable as it would be if a directory were tested for R_OK | W_OK.
is_writable_rw(f, pm, loc) ==
    IF loc = <<>> THEN FALSE ELSE os_access(f, pm, loc, { R_OK, W_OK })

is_writable(f, pm, loc) ==
    IF loc = <<>> THEN FALSE
    ELSE IF is_dir(Seen(f, pm), loc, FALSE)
    THEN os_access(f, pm, loc, { R_OK, W_OK, X_OK })
    ELSE os_access(f, pm, loc, { R_OK, W_OK })

\* is_executable as it would be if a file were tested like a directory.
is_executable_all(f, pm, loc) ==
    IF loc = <<>> THEN FALSE ELSE os_access(f, pm, loc, { R_OK, W_OK, X_OK })

is_executable(f, pm, loc) ==
    IF loc = <<>> THEN FALSE
    ELSE IF is_dir(Seen(f, pm), loc, FALSE)
    THEN os_access(f, pm, loc, { R_OK, W_OK, X_OK })
    ELSE os_access(f, pm, loc, { X_OK })

is_rwx(f, pm, loc) ==
    is_readable(f, pm, loc) /\ is_writable(f, pm, loc) /\ is_executable(f, pm, loc)

(* ------------------------- modification date ------------------------- *)

\* A modification time: whole seconds since the epoch (the floor) and the
\* nanoseconds past them, as st_mtime_ns holds it.
Mtime(sec, nsec) == [sec |-> sec, nsec |-> nsec]

Epoch == Mtime(0, 0)

\* The times os.utime gives a file here: around midnight of 1970-01-01 and of
\* the leap days of 2000 and 2024.  Each is at least 100 ns away from half a
\* microsecond, and a whole number of microseconds when the seconds are
\* large, so that the float os.path.getmtime returns rounds as the exact
\* value does.
Mtimes ==
    { Epoch,
      Mtime(86399, 999999000), Mtime(86399, 999999600), Mtime(86400, 0),
      Mtime(-1, 999999999), Mtime(-86400, 0), Mtime(-86401, 999999400),
      Mtime(951868799, 0), Mtime(1709251199, 999999000), Mtime(1709251200, 0) }

\* os.path.getmtime(loc): st_mtime of os.stat(loc).
os_path_getmtime(f, mt, loc) == mt[Stat(f, loc)]

\* n / unit rounded to the nearest integer, a tie to the even one.
RoundHalfEven(n, unit) ==
    LET q == n \div unit
        r == n % unit
    IN  IF 2 * r > unit \/ (2 * r = unit /\ q % 2 = 1) THEN q + 1 ELSE q

\* The civil date of a count of days since 1970-01-01, as gmtime finds it.
ymd(days) ==
    LET z == days + 719468
        era == z \div 146097
        doe == z - era * 146097
        yoe == (doe - doe \div 1460 + doe \div 36524 - doe \div 146096) \div 365
        doy == doe - (365 * yoe + yoe \div 4 - yoe \div 100)
        mp == (5 * doy + 2) \div 153
        month == IF mp < 10 THEN mp + 3 ELSE mp - 9
    IN  [year |-> yoe + era * 400 + (IF month <= 2 THEN 1 ELSE 0),
         month |-> month,
         day |-> doy - (153 * mp + 2) \div 5 + 1]

\* datetime.fromtimestamp(t, tz=timezone.utc): t is rounded to the nearest
\* microsecond, which may carry into the next second and the next day.
fromtimestamp(t) ==
    LET rounded == RoundHalfEven(t.nsec, 1000)
        carry == IF rounded >= 1000000 THEN 1 ELSE 0
        secs == t.sec + carry
        date == ymd(secs \div 86400)
        rest == secs % 86400
    IN  [year |-> date.year, month |-> date.month, day |-> date.day,
         hour |-> rest \div 3600, minute |-> (rest % 3600) \div 60,
         second |-> rest % 60, microsecond |-> rounded - carry * 1000000]

Digit == << "0", "1", "2", "3", "4", "5", "6", "7", "8", "9" >>

\* n written in `width` decimal digits, zeros in front.
RECURSIVE Padded(_, _)
Padded(n, width) ==
    IF width = 0 THEN "" ELSE Padded(n \div 10, width - 1) \o Digit[(n % 10) + 1]

\* datetime.isoformat(dt) of a UTC datetime: YYYY-MM-DDTHH:MM:SS+00:00, with
\* .ffffff after the seconds when the microseconds are not zero.
isoformat(dt) ==
    Padded(dt.year, 4) \o "-" \o Padded(dt.month, 2) \o "-" \o Padded(dt.day, 2)
        \o "T" \o Padded(dt.hour, 2) \o ":" \o Padded(dt.minute, 2)
        \o ":" \o Padded(dt.second, 2)
        \o (IF dt.microsecond = 0 THEN "" ELSE "." \o Padded(dt.microsecond, 6))
        \o "+00:00"

get_last_modified_date(f, mt, loc) ==
    IF is_file(f, loc, FALSE)
    THEN LET utc_date == isoformat(fromtimestamp(os_path_getmtime(f, mt, loc)))
         IN  SubSeq(utc_date, 1, 10)
    ELSE ""

(* ------------------------ recursive counter --------------------------- *)

\* os.scandir as it would be if a failure were taken for an empty directory.
os_scandir_empty_on_error(f, loc) ==
    IF Stat(f, loc) \in failing THEN Return({})
    ELSE Return({ n \in Names : Append(Stat(f, loc), n) \in Entries
                                /\ f[Append(Stat(f, loc), n)].kind # "none" })

\* The names os.scandir(loc) yields: the entries of the directory `loc` names.
os_scandir(f, loc) ==
    IF Stat(f, loc) \in failing THEN Raise("OSError")
    ELSE Return({ n \in Names : Append(Stat(f, loc), n) \in Entries
                                /\ f[Append(Stat(f, loc), n)].kind # "none" })

\* os.path.getsize(loc): st_size of the entry `loc` resolves to.
os_path_getsize(f, loc) ==
    IF Stat(f, loc) \in failing THEN Raise("OSError")
    ELSE Return(f[Stat(f, loc)].size)

\* counting_functions as it would be with the two entries swapped.
counting_functions_swapped(counting_function, f, loc) ==
    CASE counting_function = "file_count" -> os_path_getsize(f, loc)
      [] counting_function = "file_size" -> Return(1)

\* The registry counting_functions: the count of a single file.
counting_functions(counting_function, f, loc) ==
    CASE counting_function = "file_count" -> Return(1)
      [] counting_function = "file_size" -> os_path_getsize(f, loc)

Metrics == { "file_count", "file_size" }

\* The store as it would be if it added to a result already stored under the
\* key.
Store_adds(memos, key, value) ==
    [k \in DOMAIN memos \cup {key} |->
        IF k # key THEN memos[k]
        ELSE IF key \in DOMAIN memos THEN memos[key] + value ELSE value]

\* memos[args] = value
Store(memos, key, value) ==
    [k \in DOMAIN memos \cup {key} |-> IF k = key THEN value ELSE memos[k]]

\* The outcome of a counter call: the exception raised or the value returned,
\* and the memos left behind.
Counted(val, memos) == [exc |-> "none", val |-> val, memos |-> memos]

\* The outcome r of an operating system call, as the outcome of the counter.
WithMemos(r, memos) == [exc |-> r.exc, val |-> r.val, memos |-> memos]

\* The names the directory d can hold, and the orders in which os.scandir
\* may yield them: the order is arbitrary, one for each directory.
ChildNames(d) == { n \in Names : Append(d, n) \in Entries }

YieldOrders(S) ==
    { s \in [1..Cardinality(S) -> S] : \A i, j \in DOMAIN s : s[i] = s[j] => i = j }

\* The directories that can hold more than one name: only there do two
\* orders differ.
Branching == { d \in Entries : Cardinality(ChildNames(d)) > 1 }

Orders ==
    { [d \in Entries |->
          IF d \in Branching THEN o[d]
          ELSE CHOOSE s \in YieldOrders(ChildNames(d)) : TRUE] :
      o \in { o \in [Branching -> UNION { YieldOrders(ChildNames(d)) : d \in Branching }] :
                \A d \in Branching : o[d] \in YieldOrders(ChildNames(d)) } }

\* The names of `names` in the order in which scandir yields them for the
\* directory `loc` names.
Yielded(f, loc, names, order) ==
    LET IsYielded(n) == n \in names IN SelectSeq(order[Stat(f, loc)], IsYielded)

\* The decorated counter and its body call each other.
RECURSIVE memoized(_, _, _, _, _)
RECURSIVE counter(_, _, _, _, _)
RECURSIVE SumChildren(_, _, _, _, _, _)

\* The sum as it would be if it stopped after the first child.
SumChildren_first(f, memos, loc, counting_function, names, order) ==
    IF names = <<>> THEN Counted(0, memos)
    ELSE memoized(f, memos, Append(loc, Head(names)), counting_function, order)

\* sum(counter(join(location, p.name), counting_function) for p in scandir):
\* the children are taken one at a time in the order scandir yields them,
\* each call seeing the memos the calls before it left; the first call that
\* raises ends the sum.
SumChildren(f, memos, loc, counting_function, names, order) ==
    IF names = <<>> THEN Counted(0, memos)
    ELSE LET one == memoized(f, memos, Append(loc, Head(names)), counting_function,
                             order)
         IN  IF one.exc # "none" THEN one
             ELSE LET others == SumChildren(f, one.memos, loc, counting_function,
                                            Tail(names), order)
                  IN  IF others.exc # "none" THEN others
                      ELSE Counted(one.val + others.val, others.memos)

\* The body of counter as it would be if it asked is_file to follow links.
counter_follows(f, memos, loc, counting_function, order) ==
    IF ~(is_file(f, loc, TRUE) \/ is_dir(f, loc, FALSE))
    THEN Counted(0, memos)
    ELSE IF is_file(f, loc, TRUE)
    THEN WithMemos(counting_functions(counting_function, f, loc), memos)
    ELSE LET entries == os_scandir(f, loc) IN
         IF entries.exc # "none" THEN WithMemos(entries, memos)
         ELSE SumChildren(f, memos, loc, counting_function,
                          Yielded(f, loc, entries.val, order), order)

\* The body of counter.
counter(f, memos, loc, counting_function, order) ==
    IF ~(is_file(f, loc, FALSE) \/ is_dir(f, loc, FALSE))
    THEN Counted(0, memos)
    ELSE IF is_file(f, loc, FALSE)
    THEN WithMemos(counting_functions(counting_function, f, loc), memos)
    ELSE LET entries == os_scandir(f, loc) IN
         IF entries.exc # "none" THEN WithMemos(entries, memos)
         ELSE SumChildren(f, memos, loc, counting_function,
                          Yielded(f, loc, entries.val, order), order)

\* The decorated counter as it would be if it never looked a result up.
memoized_recomputes(f, memos, loc, counting_function, order) ==
    LET r == counter(f, memos, loc, counting_function, order) IN
    IF r.exc # "none" THEN r
    ELSE Counted(r.val, Store(r.memos, <<loc, counting_function>>, r.val))

\* What @memoize makes of counter: a stored result is returned as it is,
\* otherwise the body runs and its result is stored under (loc, function);
\* a body that raises stores nothing.
memoized(f, memos, loc, counting_function, order) ==
    LET key == <<loc, counting_function>> IN
    IF key \in DOMAIN memos
    THEN Counted(memos[key], memos)
    ELSE LET r == counter(f, memos, loc, counting_function, order) IN
         IF r.exc # "none" THEN r
         ELSE Counted(r.val, Store(r.memos, key, r.val))

\* get_file_count as it would be if it asked counter for the size.
get_file_count_size(f, memos, loc, order) ==
    memoized(f, memos, loc, "file_size", order)

get_file_count(f, memos, loc, order) == memoized(f, memos, loc, "file_count", order)

\* get_size as it would be if it called the undecorated counter.
get_size_undecorated(f, memos, loc, order) ==
    counter(f, memos, loc, "file_size", order)

get_size(f, memos, loc, order) == memoized(f, memos, loc, "file_size", order)

(* ------------------------------ state --------------------------------- *)

\* How many counter calls and how many changes of the tree a behaviour of
\* the aggregator holds.
MaxCalls == 2
MaxMutations == 1

\* How many chmod calls a behaviour of the permission checker holds.
MaxChmod == 1

\* How many utime calls a behaviour of the date stamp holds.
MaxUtime == 1

NoCall == [op |-> "none", loc |-> <<>>, arg |-> FALSE, exc |-> "none", val |-> FALSE]

Returned(op, loc, arg, val) ==
    [op |-> op, loc |-> loc, arg |-> arg, exc |-> "none", val |-> val]

\* The call ended as the outcome r says: it raised r.exc or returned r.val.
Ended(op, loc, arg, r) ==
    [op |-> op, loc |-> loc, arg |-> arg, exc |-> r.exc, val |-> r.val]

EmptyMemos == [k \in {} |-> 0]

\* The threads that call the counter at the same time.
Threads == { "first", "second" }

\* A call of the decorated counter a thread is in: where it stands (at the
\* lookup in the memos, in the sum over the children, at the store of the
\* result, at the return), the children left to sum and the count so far.
Frame(loc, counting_function) ==
    [loc |-> loc, counting_function |-> counting_function, pc |-> "lookup",
     todo |-> {}, count |-> 0]

\* A thread that is in no call and has returned nothing.
Idle == [stack |-> <<>>, done |-> FALSE, val |-> 0, args |-> <<>>]

(* ------------------- the environment changes the tree ----------------- *)

Create(p, e) ==
    /\ fs[p].kind = "none"
    /\ ParentIsDir(fs, p)
    /\ e.kind # "none"
    /\ fs' = [fs EXCEPT ![p] = e]

WriteFile(p, sz) ==
    /\ fs[p].kind = "file"
    /\ fs[p].size # sz
    /\ fs' = [fs EXCEPT ![p] = FileEntry(sz)]

Remove(p) ==
    /\ fs[p].kind # "none"
    /\ \A q \in Entries : (Len(q) = Len(p) + 1 /\ Front(q) = p) => fs[q].kind = "none"
    /\ fs' = [fs EXCEPT ![p] = NoEntry]

\* Any one change of the tree.
Mutation ==
    \/ \E p \in Entries, e \in EntryValues : Create(p, e)
    \/ \E p \in Entries, sz \in 0..MaxSize : WriteFile(p, sz)
    \/ \E p \in Entries : Remove(p)

\* The tree changes while only the type predicates are in use.
Change ==
    /\ Mutation
    /\ last' = NoCall
    /\ UNCHANGED <<cache, stored, ncalls, nmut, perms, nchmod, on_posix,
                   undecodable, mtime, nutime, failing, threads>>

\* The tree changes between two counter calls.  Init holds every tree, so
\* only a change that follows a stored result leads anywhere new.
ChangeAfterCount ==
    /\ cache # EmptyMemos
    /\ nmut < MaxMutations
    /\ Mutation
    /\ nmut' = nmut + 1
    /\ last' = NoCall
    /\ stored' = {}
    /\ UNCHANGED <<cache, ncalls, perms, nchmod, on_posix, undecodable,
                   mtime, nutime, failing, threads>>

\* chmod(p, mode) on an entry that is not a link.
Chmod(p, mode) ==
    /\ nchmod < MaxChmod
    /\ fs[p].kind \notin { "none", "link" }
    /\ perms[p] # mode
    /\ perms' = [perms EXCEPT ![p] = mode]
    /\ nchmod' = nchmod + 1
    /\ last' = NoCall
    /\ UNCHANGED <<fs, cache, stored, ncalls, nmut, on_posix, undecodable,
                   mtime, nutime, failing, threads>>

\* os.utime(p, ns=(t, t)) on a file.
Utime(p, t) ==
    /\ nutime < MaxUtime
    /\ fs[p].kind = "file"
    /\ mtime[p] # t
    /\ mtime' = [mtime EXCEPT ![p] = t]
    /\ nutime' = nutime + 1
    /\ last' = NoCall
    /\ UNCHANGED <<fs, cache, stored, ncalls, nmut, perms, nchmod, on_posix,
                   undecodable, failing, threads>>

(* ------------------- the counter, one step at a time ------------------ *)

\* The innermost call of thread t returns val: to the call that made it,
\* which adds val to its sum, or to the caller of the thread.
Deliver(t, val) ==
    LET rest == Tail(threads[t].stack) IN
    IF rest = <<>> THEN [threads[t] EXCEPT !.stack = <<>>, !.done = TRUE, !.val = val]
    ELSE [threads[t] EXCEPT
            !.stack = << [Head(rest) EXCEPT !.count = @ + val] >> \o Tail(rest)]

\* The innermost call of thread t goes on as the frame `top`.
Continue(t, top) ==
    [threads[t] EXCEPT !.stack = << top >> \o Tail(threads[t].stack)]

\* The body of counter as it would start if it asked is_dir to follow links.
Enter_follows(f, top) ==
    IF ~(is_file(f, top.loc, FALSE) \/ is_dir(f, top.loc, TRUE))
    THEN [top EXCEPT !.pc = "store", !.count = 0]
    ELSE IF is_file(f, top.loc, FALSE)
    THEN [top EXCEPT
            !.pc = "store",
            !.count = counting_functions(top.counting_function, f, top.loc).val]
    ELSE [top EXCEPT !.pc = "sum", !.todo = os_scandir(f, top.loc).val]

\* The body of counter starts in the call `top`: what is neither a file nor
\* a directory counts 0, a file counts what its counting function gives, a
\* directory starts the sum over the names scandir yields.
Enter(f, top) ==
    IF ~(is_file(f, top.loc, FALSE) \/ is_dir(f, top.loc, FALSE))
    THEN [top EXCEPT !.pc = "store", !.count = 0]
    ELSE IF is_file(f, top.loc, FALSE)
    THEN [top EXCEPT
            !.pc = "store",
            !.count = counting_functions(top.counting_function, f, top.loc).val]
    ELSE [top EXCEPT !.pc = "sum", !.todo = os_scandir(f, top.loc).val]

\* memos[args] is looked up: a stored result is returned; otherwise the body
\* of counter starts, which reads the tree only.
Lookup(t) ==
    /\ threads[t].stack # <<>>
    /\ LET top == Head(threads[t].stack)
           key == <<top.loc, top.counting_function>>
           after ==
               IF key \in DOMAIN cache THEN Deliver(t, cache[key])
               ELSE Continue(t, Enter(fs, top))
       IN  /\ top.pc = "lookup"
           /\ threads' = [threads EXCEPT ![t] = after]
    /\ UNCHANGED <<fs, cache, last, stored, ncalls, nmut, perms, nchmod, on_posix,
                   undecodable, mtime, nutime, failing>>

\* The sum takes the next child: counter is called on it.
NextChild(t, n) ==
    /\ threads[t].stack # <<>>
    /\ LET top == Head(threads[t].stack) IN
       /\ top.pc = "sum"
       /\ n \in top.todo
       /\ threads' = [threads EXCEPT ![t].stack =
               << Frame(Append(top.loc, n), top.counting_function),
                  [top EXCEPT !.todo = @ \ {n}] >> \o Tail(threads[t].stack)]
    /\ UNCHANGED <<fs, cache, last, stored, ncalls, nmut, perms, nchmod, on_posix,
                   undecodable, mtime, nutime, failing>>

\* The sum is over: the body returns the count.
EndSum(t) ==
    /\ threads[t].stack # <<>>
    /\ LET top == Head(threads[t].stack) IN
       /\ top.pc = "sum"
       /\ top.todo = {}
       /\ threads' = [threads EXCEPT ![t] = Continue(t, [top EXCEPT !.pc = "store"])]
    /\ UNCHANGED <<fs, cache, last, stored, ncalls, nmut, perms, nchmod, on_posix,
                   undecodable, mtime, nutime, failing>>

\* memos[args] = fun(*args)
StoreResult(t) ==
    /\ threads[t].stack # <<>>
    /\ LET top == Head(threads[t].stack) IN
       /\ top.pc = "store"
       /\ cache' = Store(cache, <<top.loc, top.counting_function>>, top.count)
       /\ threads' = [threads EXCEPT ![t] = Continue(t, [top EXCEPT !.pc = "return"])]
    /\ UNCHANGED <<fs, last, stored, ncalls, nmut, perms, nchmod, on_posix,
                   undecodable, mtime, nutime, failing>>

\* return memos[args]
ReturnStored(t) ==
    /\ threads[t].stack # <<>>
    /\ LET top == Head(threads[t].stack) IN
       /\ top.pc = "return"
       /\ threads' = [threads EXCEPT
               ![t] = Deliver(t, cache[<<top.loc, top.counting_function>>])]
    /\ UNCHANGED <<fs, cache, last, stored, ncalls, nmut, perms, nchmod, on_posix,
                   undecodable, mtime, nutime, failing>>

(* --------------------------- library calls ---------------------------- *)

Query(op, loc, arg, val) ==
    /\ last' = Returned(op, loc, arg, val)
    /\ UNCHANGED <<fs, cache, stored, ncalls, nmut, perms, nchmod, on_posix,
                   undecodable, mtime, nutime, failing, threads>>

CallIsLink(loc) == Query("is_link", loc, FALSE, is_link(fs, loc))

CallIsFile(loc, follow) == Query("is_file", loc, follow, is_file(fs, loc, follow))

CallIsDir(loc, follow) == Query("is_dir", loc, follow, is_dir(fs, loc, follow))

CallIsRegular(loc) == Query("is_regular", loc, FALSE, is_regular(fs, loc))

CallIsBrokenLink(loc) ==
    /\ last' = Ended("is_broken_link", loc, FALSE, is_broken_link(fs, loc))
    /\ UNCHANGED <<fs, cache, stored, ncalls, nmut, perms, nchmod, on_posix,
                   undecodable, mtime, nutime, failing, threads>>

CallGetLinkTarget(loc) ==
    /\ last' = Ended("get_link_target", loc, FALSE, get_link_target(fs, loc))
    /\ UNCHANGED <<fs, cache, stored, ncalls, nmut, perms, nchmod, on_posix,
                   undecodable, mtime, nutime, failing, threads>>

CallIsSpecial(loc) == Query("is_special", loc, FALSE, is_special(fs, loc))

CallGetType(loc, short) == Query("get_type", loc, short, get_type(fs, loc, short))

CallGetLastModifiedDate(loc) ==
    Query("get_last_modified_date", loc, FALSE, get_last_modified_date(fs, mtime, loc))

CallIsReadable(loc) == Query("is_readable", loc, FALSE, is_readable(fs, perms, loc))

CallIsWritable(loc) == Query("is_writable", loc, FALSE, is_writable(fs, perms, loc))

CallIsExecutable(loc) == Query("is_executable", loc, FALSE, is_executable(fs, perms, loc))

CallIsRwx(loc) == Query("is_rwx", loc, FALSE, is_rwx(fs, perms, loc))

\* A counter call: `arg` records whether the key was already in the memos.
Count(op, loc, counting_function, r) ==
    /\ ncalls < MaxCalls
    /\ ncalls' = ncalls + 1
    /\ cache' = r.memos
    /\ stored' = DOMAIN r.memos \ DOMAIN cache
    /\ last' = Ended(op, loc, <<loc, counting_function>> \in DOMAIN cache, r)
    /\ UNCHANGED <<fs, nmut, perms, nchmod, on_posix, undecodable, mtime,
                   nutime, failing, threads>>

\* scandir yields the names of each directory in one of its orders.
CallGetFileCount(loc) ==
    \E order \in Orders :
        Count("get_file_count", loc, "file_count", get_file_count(fs, cache, loc, order))

CallGetSize(loc) ==
    \E order \in Orders :
        Count("get_size", loc, "file_size", get_size(fs, cache, loc, order))

Init ==
    /\ fs \in FileSystems
    /\ cache = EmptyMemos
    /\ last = NoCall
    /\ stored = {}
    /\ ncalls = 0
    /\ nmut = 0
    /\ perms = [p \in Entries |-> { R_OK, W_OK, X_OK }]
    /\ nchmod = 0
    /\ on_posix = TRUE
    /\ undecodable = {}
    /\ mtime = [p \in Entries |-> Epoch]
    /\ nutime = 0
    /\ failing = {}
    /\ threads = [t \in Threads |-> Idle]

\* The type classifier on a changing tree.
Next ==
    \/ Change
    \/ \E loc \in Locations : CallIsLink(loc)
    \/ \E loc \in Locations, follow \in BOOLEAN : CallIsFile(loc, follow)
    \/ \E loc \in Locations, follow \in BOOLEAN : CallIsDir(loc, follow)
    \/ \E loc \in Locations : CallIsSpecial(loc)
    \/ \E loc \in Locations, short \in BOOLEAN : CallGetType(loc, short)

Spec == Init /\ [][Next]_vars

\* The recursive aggregator on a changing tree.
NextAgg ==
    \/ ChangeAfterCount
    \/ \E loc \in PlainLocations : CallGetFileCount(loc)
    \/ \E loc \in PlainLocations : CallGetSize(loc)

SpecAgg == Init /\ [][NextAgg]_vars

\* The permission checker on a tree whose permissions change.
NextPerm ==
    \/ \E p \in Entries, mode \in Modes : Chmod(p, mode)
    \/ \E loc \in PlainLocations : CallIsReadable(loc)
    \/ \E loc \in PlainLocations : CallIsWritable(loc)
    \/ \E loc \in PlainLocations : CallIsExecutable(loc)
    \/ \E loc \in PlainLocations : CallIsRwx(loc)

\* Byte lengths play no part in a permission check: the files are empty.
InitPerm ==
    /\ Init
    /\ \A p \in Entries : fs[p].size = 0

SpecPerm == InitPerm /\ [][NextPerm]_vars

\* The link predicates, on either kind of platform, with links whose target
\* cannot be read.
NextLink ==
    \/ Change
    \/ \E loc \in Locations : CallIsLink(loc)
    \/ \E loc \in Locations : CallIsRegular(loc)
    \/ \E loc \in Locations : CallIsBrokenLink(loc)
    \/ \E loc \in Locations : CallGetLinkTarget(loc)

InitLink ==
    /\ fs \in FileSystems
    /\ cache = EmptyMemos
    /\ last = NoCall
    /\ stored = {}
    /\ ncalls = 0
    /\ nmut = 0
    /\ perms = [p \in Entries |-> { R_OK, W_OK, X_OK }]
    /\ nchmod = 0
    /\ on_posix \in BOOLEAN
    /\ undecodable \in SUBSET { p \in Entries : fs[p].kind = "link" }
    /\ mtime = [p \in Entries |-> Epoch]
    /\ nutime = 0
    /\ failing = {}
    /\ threads = [t \in Threads |-> Idle]

SpecLink == InitLink /\ [][NextLink]_vars

\* The date stamp, on files whose modification time is set.
NextDate ==
    \/ \E p \in Entries, t \in Mtimes : Utime(p, t)
    \/ \E loc \in Locations : CallGetLastModifiedDate(loc)
    \/ \E loc \in Locations : CallIsFile(loc, FALSE)

SpecDate == InitPerm /\ [][NextDate]_vars

\* The aggregator on a tree one entry of which the operating system fails to
\* list or to size, until it recovers.
Recover ==
    /\ failing # {}
    /\ failing' = {}
    /\ last' = NoCall
    /\ stored' = {}
    /\ UNCHANGED <<fs, cache, ncalls, nmut, perms, nchmod, on_posix, undecodable,
                   mtime, nutime, threads>>

NextErr ==
    \/ Recover
    \/ \E loc \in PlainLocations : CallGetFileCount(loc)
    \/ \E loc \in PlainLocations : CallGetSize(loc)

InitErr ==
    /\ fs \in FileSystems
    /\ cache = EmptyMemos
    /\ last = NoCall
    /\ stored = {}
    /\ ncalls = 0
    /\ nmut = 0
    /\ perms = [p \in Entries |-> { R_OK, W_OK, X_OK }]
    /\ nchmod = 0
    /\ on_posix = TRUE
    /\ undecodable = {}
    /\ mtime = [p \in Entries |-> Epoch]
    /\ nutime = 0
    /\ failing \in { {p} : p \in { q \in Entries : fs[q].kind \in { "file", "dir" } } }
    /\ threads = [t \in Threads |-> Idle]

SpecErr == InitErr /\ [][NextErr]_vars

\* Two threads make the first counter call for one location and one
\* counting function, on a tree that does not change.
NextThreads ==
    \/ \E t \in Threads : Lookup(t)
    \/ \E t \in Threads, n \in Names : NextChild(t, n)
    \/ \E t \in Threads : EndSum(t)
    \/ \E t \in Threads : StoreResult(t)
    \/ \E t \in Threads : ReturnStored(t)

InitThreads ==
    /\ fs \in FileSystems
    /\ cache = EmptyMemos
    /\ last = NoCall
    /\ stored = {}
    /\ ncalls = 0
    /\ nmut = 0
    /\ perms = [p \in Entries |-> { R_OK, W_OK, X_OK }]
    /\ nchmod = 0
    /\ on_posix = TRUE
    /\ undecodable = {}
    /\ mtime = [p \in Entries |-> Epoch]
    /\ nutime = 0
    /\ failing = {}
    /\ \E loc \in PlainLocations, counting_function \in Metrics :
          threads = [t \in Threads |->
                       [Idle EXCEPT !.stack = << Frame(loc, counting_function) >>,
                                    !.args = <<loc, counting_function>>]]

SpecThreads == InitThreads /\ [][NextThreads]_vars

\* One thread makes one counter call and runs on until the call returns.
InitWalk ==
    /\ fs \in FileSystems
    /\ cache = EmptyMemos
    /\ last = NoCall
    /\ stored = {}
    /\ ncalls = 0
    /\ nmut = 0
    /\ perms = [p \in Entries |-> { R_OK, W_OK, X_OK }]
    /\ nchmod = 0
    /\ on_posix = TRUE
    /\ undecodable = {}
    /\ mtime = [p \in Entries |-> Epoch]
    /\ nutime = 0
    /\ failing = {}
    /\ \E loc \in PlainLocations, counting_function \in Metrics :
          threads = [t \in Threads |->
                       IF t = "first"
                       THEN [Idle EXCEPT !.stack = << Frame(loc, counting_function) >>,
                                         !.args = <<loc, counting_function>>]
                       ELSE Idle]

\* A thread that is in a call takes its next step.
Step(t) ==
    \/ Lookup(t)
    \/ \E n \in Names : NextChild(t, n)
    \/ EndSum(t)
    \/ StoreResult(t)
    \/ ReturnStored(t)

SpecWalk == InitWalk /\ [][NextThreads]_vars /\ \A t \in Threads : WF_vars(Step(t))

(* ------------------------------ claims -------------------------------- *)

\* What the entry `loc` names is, the entry itself and not what a link at
\* `loc` leads to: "none" when `loc` names nothing.
EntryKind(f, loc) == KindAt(f, Lstat(f, loc))

ExactlyOne(bs) == Cardinality({ i \in DOMAIN bs : bs[i] }) = 1

\* C1: get_type returns None for an empty path and for a path that names
\* nothing in the filesystem, with short=True and with short=False.
C1_AbsentWhenNothingThere ==
    (last.op = "get_type" /\ EntryKind(fs, last.loc) = "none") => last.val = None

\* C2, as claimed: exactly one of is_link, is_file, is_dir, is_special holds
\* of a path that exists, and none of them holds of a path that does not.
C2_FourWayPartition ==
    \A loc \in Locations :
        LET four == << is_link(fs, loc), is_file(fs, loc, FALSE),
                       is_dir(fs, loc, FALSE), is_special(fs, loc) >> IN
        IF EntryKind(fs, loc) # "none" THEN ExactlyOne(four)
        ELSE \A i \in 1..4 : ~four[i]

\* C2, amended: exactly one of is_file, is_dir, is_special holds of every
\* path; a link is special as well and is neither file nor directory; of a
\* path that names nothing only is_special holds.
C2_ThreeWayPartition ==
    \A loc \in Locations :
        /\ ExactlyOne(<< is_file(fs, loc, FALSE), is_dir(fs, loc, FALSE),
                         is_special(fs, loc) >>)
        /\ is_link(fs, loc) <=> EntryKind(fs, loc) = "link"
        /\ is_link(fs, loc) => is_special(fs, loc)
        /\ is_file(fs, loc, FALSE) <=> EntryKind(fs, loc) = "file"
        /\ is_dir(fs, loc, FALSE) <=> EntryKind(fs, loc) = "dir"
        /\ EntryKind(fs, loc) = "none" => is_special(fs, loc)

\* C2 witness: is_special was asked of a link and answered true.
C2_Witness ==
    /\ last.op = "is_special"
    /\ last.val = TRUE
    /\ is_link(fs, last.loc)

\* The code get_type must give an entry of each kind.
CodeOf(kind, short) ==
    CASE kind = "link" -> IF short THEN "l" ELSE "link"
      [] kind = "file" -> IF short THEN "f" ELSE "file"
      [] kind = "dir" -> IF short THEN "d" ELSE "directory"
      [] kind = "fifo" -> IF short THEN "s" ELSE "special"

\* C8: get_type reports every link, whatever it leads to, as link, a file
\* that is no link as file, a directory that is no link as directory and
\* any other entry as special.
C8_FirstMatchInOrder ==
    (last.op = "get_type" /\ EntryKind(fs, last.loc) # "none")
        => last.val = CodeOf(EntryKind(fs, last.loc), last.arg)

\* C8 witness: get_type answered link for a link that leads to a regular file.
C8_Witness ==
    /\ last.op = "get_type"
    /\ last.val = "l"
    /\ EntryKind(fs, last.loc) = "link"
    /\ os_path_isfile(fs, last.loc)

\* C9: without follow_symlinks, is_file and is_dir are false of every link,
\* broken or not, and is_dir is false wherever is_file is true.
C9_LinksAreNeitherFileNorDir ==
    \A loc \in Locations :
        /\ EntryKind(fs, loc) = "link"
              => ~is_file(fs, loc, FALSE) /\ ~is_dir(fs, loc, FALSE)
        /\ is_file(fs, loc, FALSE) => ~is_dir(fs, loc, FALSE)

\* C9 witness: is_file without follow_symlinks answered false for a link
\* that leads to a regular file.
C9_Witness ==
    /\ last.op = "is_file"
    /\ last.arg = FALSE
    /\ last.val = FALSE
    /\ EntryKind(fs, last.loc) = "link"
    /\ os_path_isfile(fs, last.loc)

\* C23: at a location that is not the empty string, at most one of is_link,
\* is_file and is_dir (links not followed) holds, and get_type gives the
\* link code iff is_link holds, the file code iff is_file holds, the
\* directory code iff is_dir holds, and the special code only when none does.
C23_ExclusiveAndGetTypeAgrees ==
    last.loc # <<>> =>
        LET link == is_link(fs, last.loc)
            file == is_file(fs, last.loc, FALSE)
            dir == is_dir(fs, last.loc, FALSE)
        IN  /\ (last.op = "is_link" /\ last.val) => (~file /\ ~dir)
            /\ (last.op = "is_file" /\ ~last.arg /\ last.val) => (~link /\ ~dir)
            /\ (last.op = "is_dir" /\ ~last.arg /\ last.val) => (~link /\ ~file)
            /\ last.op = "get_type" =>
                  /\ (last.val = CodeOf("link", last.arg)) <=> link
                  /\ (last.val = CodeOf("file", last.arg)) <=> file
                  /\ (last.val = CodeOf("dir", last.arg)) <=> dir
                  /\ (last.val = CodeOf("fifo", last.arg))
                        => (~link /\ ~file /\ ~dir)

\* C23 witness: get_type answered link for a link that leads to a directory,
\* where is_dir, which does not follow links, does not hold.
C23_Witness ==
    /\ last.op = "get_type"
    /\ last.arg = TRUE
    /\ last.val = "l"
    /\ EntryKind(fs, last.loc) = "link"
    /\ os_path_isdir(fs, last.loc)
    /\ ~is_dir(fs, last.loc, FALSE)

(* ----------------------- claims on the counter ------------------------ *)

CountOps == { "get_file_count", "get_size" }

MetricOf(op) == IF op = "get_file_count" THEN "file_count" ELSE "file_size"

\* The key of the last call, when it was a counter call.
LastKey == <<last.loc, MetricOf(last.op)>>

RECURSIVE SumOver(_, _)
SumOver(S, g) ==
    IF S = {} THEN 0
    ELSE LET x == CHOOSE y \in S : TRUE IN g[x] + SumOver(S \ {x}, g)

IsPrefix(p, q) == Len(p) <= Len(q) /\ SubSeq(q, 1, Len(p)) = p

\* The regular files at or below the entry `loc`.
FilesUnder(f, loc) == { p \in Entries : IsPrefix(loc, p) /\ f[p].kind = "file" }

\* What the claims say the aggregate of the tree at `loc` is.
Expected(f, loc, metric) ==
    IF metric = "file_count" THEN Cardinality(FilesUnder(f, loc))
    ELSE SumOver(FilesUnder(f, loc), [p \in Entries |-> f[p].size])

\* The locations of the immediate children of the directory `loc`.
ChildrenOf(f, loc) == { Append(loc, n) : n \in os_scandir(f, loc).val }

\* C3: while the tree is as it was when the memos were empty, the value
\* stored for a directory is the sum of the values stored for its immediate
\* children, and is the number, or the total size, of the regular files
\* below it; the last call returned that value.
C3_DirectoryIsSumOfChildren ==
    nmut = 0 =>
        /\ \A k \in DOMAIN cache :
              EntryKind(fs, k[1]) = "dir" =>
                 /\ \A c \in ChildrenOf(fs, k[1]) : <<c, k[2]>> \in DOMAIN cache
                 /\ cache[k] = SumOver(ChildrenOf(fs, k[1]),
                                       [c \in ChildrenOf(fs, k[1]) |-> cache[<<c, k[2]>>]])
                 /\ cache[k] = Expected(fs, k[1], k[2])
        /\ (last.op \in CountOps /\ EntryKind(fs, last.loc) = "dir")
              => last.val = Expected(fs, last.loc, MetricOf(last.op))

\* C3 witness: get_size of r, holding the file r/a and the directory r/s
\* with the file r/s/b, both files not empty, returned the two sizes added.
C3_Witness ==
    /\ last.op = "get_size"
    /\ last.loc = <<"r">>
    /\ nmut = 0
    /\ fs[<<"r", "a">>].kind = "file" /\ fs[<<"r", "a">>].size > 0
    /\ fs[<<"r", "s", "b">>].kind = "file" /\ fs[<<"r", "s", "b">>].size > 0
    /\ last.val = fs[<<"r", "a">>].size + fs[<<"r", "s", "b">>].size

\* C4: a counter call for a key the memos hold returns the value they hold,
\* whatever the tree has become.
C4_LaterCallsReturnTheSame ==
    [][\A k \in DOMAIN cache :
          (last'.op \in CountOps /\ ncalls' = ncalls + 1
              /\ <<last'.loc, MetricOf(last'.op)>> = k)
             => last'.val = cache[k]]_vars

\* C4 witness: after the tree changed, a second call returned a value that
\* the tree as it is now would not give.
C4_Witness ==
    /\ last.op \in CountOps
    /\ last.arg = TRUE
    /\ nmut > 0
    /\ \A order \in Orders :
          last.val # memoized(fs, EmptyMemos, last.loc, MetricOf(last.op), order).val

\* C5, as claimed: the aggregate of a link, a special file, a path that
\* names nothing and the empty path is 0.
C5_ZeroForNonRegular ==
    (last.op \in CountOps /\ EntryKind(fs, last.loc) \notin { "file", "dir" })
        => last.val = 0

\* C5, amended: such a path yields 0 whenever its value is computed and not
\* taken from the memos, as the path of the call or as a child met in the
\* walk, and the walk enters real directories only.
C5_ZeroForNonRegularWhenComputed ==
    last.op \in CountOps =>
        /\ (~last.arg /\ EntryKind(fs, last.loc) \notin { "file", "dir" })
              => last.val = 0
        /\ \A k \in stored :
              /\ EntryKind(fs, k[1]) \notin { "file", "dir" } => cache[k] = 0
              /\ k[1] # last.loc => EntryKind(fs, Front(k[1])) = "dir"

\* C5 witness: the count of r was computed while r/a is a link to the
\* directory r/s, which holds a file; the link counted 0 and the file once.
C5_Witness ==
    /\ last.op = "get_file_count"
    /\ last.loc = <<"r">>
    /\ ~last.arg
    /\ EntryKind(fs, <<"r", "a">>) = "link"
    /\ os_path_isdir(fs, <<"r", "a">>)
    /\ fs[<<"r", "s", "b">>].kind = "file"
    /\ <<<<"r", "a">>, "file_count">> \in stored
    /\ cache[<<<<"r", "a">>, "file_count">>] = 0
    /\ last.val = 1

\* C6, as claimed: the aggregate of a regular file is 1 for the count and
\* its byte length for the size.
C6_FileContribution ==
    (last.op \in CountOps /\ EntryKind(fs, last.loc) = "file")
        => last.val = IF last.op = "get_file_count" THEN 1
                      ELSE fs[Lstat(fs, last.loc)].size

\* C6, amended: so it is whenever the value is computed and not taken from
\* the memos, and the call then stores nothing but its own key.
C6_FileContributionWhenComputed ==
    (last.op \in CountOps /\ ~last.arg /\ EntryKind(fs, last.loc) = "file")
        => /\ last.val = IF last.op = "get_file_count" THEN 1
                         ELSE fs[Lstat(fs, last.loc)].size
           /\ stored = { LastKey }

\* C6 witness: get_size of a file that is not empty returned its length.
C6_Witness ==
    /\ last.op = "get_size"
    /\ ~last.arg
    /\ EntryKind(fs, last.loc) = "file"
    /\ last.val = fs[Lstat(fs, last.loc)].size
    /\ last.val > 0

\* C7: no step removes an entry of the memos or changes its value.
C7_NeverEvicted ==
    [][\A k \in DOMAIN cache : k \in DOMAIN cache' /\ cache'[k] = cache[k]]_vars

\* C7 witness: after a change of the tree and a further call, the memos
\* still hold a value the tree as it is now would not give.
C7_Witness ==
    /\ ncalls = MaxCalls
    /\ nmut > 0
    /\ \E k \in DOMAIN cache :
          \A order \in Orders :
              cache[k] # memoized(fs, EmptyMemos, k[1], k[2], order).val

\* The locations a call for (loc, metric) visits when (loc, metric) has no
\* stored result: loc, and every entry below it that is reached through
\* directories, no links, none of which has a stored result.
Visited(f, memos, loc, metric) ==
    { p \in PlainLocations :
        \/ p = loc
        \/ /\ loc # <<>>
           /\ IsPrefix(loc, p)
           /\ f[p].kind # "none"
           /\ \A q \in Entries :
                 (IsPrefix(loc, q) /\ IsPrefix(q, p) /\ q # p)
                     => (f[q].kind = "dir" /\ <<q, metric>> \notin DOMAIN memos) }

\* C22: a counter call for one counting function adds a stored result for
\* the location and for every location it visits, all under that counting
\* function and with 0 for what is neither a file nor a directory; it adds,
\* changes and removes nothing else; and a call for a location that has a
\* stored result returns it and stores nothing.
C22_OnlyTheMetricAsked ==
    [][ncalls' = ncalls + 1 =>
          LET loc == last'.loc
              metric == MetricOf(last'.op)
              visited == IF <<loc, metric>> \in DOMAIN cache THEN {}
                         ELSE Visited(fs, cache, loc, metric)
          IN  /\ DOMAIN cache' = DOMAIN cache \cup { <<p, metric>> : p \in visited }
              /\ \A k \in DOMAIN cache : cache'[k] = cache[k]
              /\ \A p \in visited :
                    (<<p, metric>> \notin DOMAIN cache
                        /\ EntryKind(fs, p) \notin { "file", "dir" })
                    => cache'[<<p, metric>>] = 0
              /\ <<loc, metric>> \in DOMAIN cache => last'.val = cache[<<loc, metric>>]
              /\ last'.val = cache'[<<loc, metric>>]]_vars

\* C22 witness: the size of r was asked for after the file count of r was
\* stored; the sizes of r and of what lies below it were added, with 0 for a
\* link, next to the file counts.
C22_Witness ==
    /\ last.op = "get_size"
    /\ last.loc = <<"r">>
    /\ fs[<<"r", "a">>].kind = "link"
    /\ fs[<<"r", "s", "b">>].kind = "file"
    /\ stored = { << <<"r">>, "file_size" >>, << <<"r", "a">>, "file_size" >>,
                  << <<"r", "s">>, "file_size" >>, << <<"r", "s", "b">>, "file_size" >> }
    /\ cache[<< <<"r", "a">>, "file_size" >>] = 0
    /\ << <<"r">>, "file_count" >> \in DOMAIN cache
    /\ cache[<< <<"r">>, "file_count" >>] = 1
    /\ cache[<< <<"r">>, "file_size" >>] = fs[<<"r", "s", "b">>].size

(* ------------------ claims on the permission checker ------------------ *)

\* The permissions the caller has on the entry at `loc`: those the entry
\* grants, and none when a directory above it may not be searched.
Granted(f, pm, loc) ==
    IF Searchable(pm, Lstat(f, loc)) THEN pm[Lstat(f, loc)] ELSE {}

\* C10, as claimed: a directory is writable iff the caller may read and
\* write it, and executable iff the caller may read and execute it.
C10_DirNeedsReadAndOne ==
    EntryKind(fs, last.loc) = "dir" =>
        /\ last.op = "is_writable"
              => (last.val <=> { R_OK, W_OK } \subseteq Granted(fs, perms, last.loc))
        /\ last.op = "is_executable"
              => (last.val <=> { R_OK, X_OK } \subseteq Granted(fs, perms, last.loc))

\* C10, amended: a directory is writable iff the caller may read, write and
\* execute it, and executable under the same condition.
C10_DirNeedsAllThree ==
    (EntryKind(fs, last.loc) = "dir" /\ last.op \in { "is_writable", "is_executable" })
        => (last.val <=> { R_OK, W_OK, X_OK } \subseteq Granted(fs, perms, last.loc))

\* C10 witness: is_writable answered false for a directory the caller may
\* read and write but not execute.
C10_Witness ==
    /\ last.op = "is_writable"
    /\ EntryKind(fs, last.loc) = "dir"
    /\ Granted(fs, perms, last.loc) = { R_OK, W_OK }
    /\ last.val = FALSE

\* C11: a directory the caller may not execute is reported neither
\* executable nor writable, whatever its read and write permissions.
C11_DirWithoutExecute ==
    (/\ last.op \in { "is_writable", "is_executable" }
     /\ EntryKind(fs, last.loc) = "dir"
     /\ X_OK \notin Granted(fs, perms, last.loc))
        => last.val = FALSE

\* C11 witness: is_writable answered false for a directory the caller may
\* read and write, after execute permission was taken away.
C11_Witness ==
    /\ last.op = "is_writable"
    /\ EntryKind(fs, last.loc) = "dir"
    /\ nchmod > 0
    /\ { R_OK, W_OK } \subseteq Granted(fs, perms, last.loc)
    /\ X_OK \notin Granted(fs, perms, last.loc)
    /\ last.val = FALSE

\* C12: a plain file is readable iff the caller may read it, writable iff
\* the caller may read and write it, executable iff the caller may execute it.
C12_FilePermissions ==
    EntryKind(fs, last.loc) = "file" =>
        LET have == Granted(fs, perms, last.loc) IN
        /\ last.op = "is_readable" => (last.val <=> R_OK \in have)
        /\ last.op = "is_writable" => (last.val <=> { R_OK, W_OK } \subseteq have)
        /\ last.op = "is_executable" => (last.val <=> X_OK \in have)

\* C12 witness: is_executable answered true for a file the caller may
\* execute but not read.
C12_Witness ==
    /\ last.op = "is_executable"
    /\ EntryKind(fs, last.loc) = "file"
    /\ Granted(fs, perms, last.loc) = { X_OK }
    /\ last.val = TRUE

\* C13: what the permission predicates answer for a link does not change
\* in a step that leaves the tree as it is and changes no permission of the
\* link or of a directory above it.
C13_LinkIgnoresTargetPermissions ==
    [][\A loc \in PlainLocations :
          (/\ EntryKind(fs, loc) = "link"
           /\ fs' = fs
           /\ \A q \in Entries : IsPrefix(q, loc) => perms'[q] = perms[q])
             => /\ is_readable(fs', perms', loc) = is_readable(fs, perms, loc)
                /\ is_writable(fs', perms', loc) = is_writable(fs, perms, loc)
                /\ is_executable(fs', perms', loc) = is_executable(fs, perms, loc)]_vars

\* C24: a directory that is not a link is readable iff the caller may read
\* and execute it; any other entry is readable iff the caller may read it;
\* and is_rwx of a directory holds iff the caller may read, write and
\* execute it.
C24_ReadableAndRwx ==
    LET kind == EntryKind(fs, last.loc)
        have == Granted(fs, perms, last.loc)
    IN  /\ (last.op = "is_readable" /\ kind # "none")
              => (last.val <=> IF kind = "dir" THEN { R_OK, X_OK } \subseteq have
                               ELSE R_OK \in have)
        /\ (last.op = "is_rwx" /\ kind = "dir")
              => (last.val <=> { R_OK, W_OK, X_OK } \subseteq have)

\* The same for the entries that are not links (it holds: for a link the
\* answer is the one of its target).
C24_ExceptLinks ==
    LET kind == EntryKind(fs, last.loc)
        have == Granted(fs, perms, last.loc)
    IN  /\ (last.op = "is_readable" /\ kind \notin { "none", "link" })
              => (last.val <=> IF kind = "dir" THEN { R_OK, X_OK } \subseteq have
                               ELSE R_OK \in have)
        /\ (last.op = "is_rwx" /\ kind = "dir")
              => (last.val <=> { R_OK, W_OK, X_OK } \subseteq have)

\* The link at `loc` does not lead to anything: its target, taken from the
\* directory that holds the link, is missing or is itself a link that leads
\* nowhere.
TargetMissing(f, loc) == Stat(f, loc) = NoEnt

\* C14: is_broken_link is true exactly when links are supported, the location
\* is a symbolic link and its target does not exist.
C14_BrokenIffTargetMissing ==
    last.op = "is_broken_link" =>
        (last.val <=> /\ on_posix
                      /\ EntryKind(fs, last.loc) = "link"
                      /\ TargetMissing(fs, last.loc))

\* C14 as the code has it: the target must also have been read; a link whose
\* target cannot be read is reported as not broken.
C14_BrokenIffReadableTargetMissing ==
    last.op = "is_broken_link" =>
        (last.val <=> /\ on_posix
                      /\ EntryKind(fs, last.loc) = "link"
                      /\ Lstat(fs, last.loc) \notin undecodable
                      /\ TargetMissing(fs, last.loc))

C14_Witness ==
    /\ last.op = "is_broken_link"
    /\ last.loc = <<"r", "s", "b">>
    /\ on_posix
    /\ fs[<<"r", "s", "b">>] = LinkEntry(RelS)
    /\ <<"r", "s", "b">> \notin undecodable
    /\ fs[<<"r", "s">>].kind = "dir"
    /\ last.val = TRUE

\* C15: a target that cannot be read makes get_link_target return the empty
\* string and is_broken_link report not broken, without raising; and
\* get_link_target returns the empty string for what is not a link and on a
\* platform without links.
C15_UnreadableTargetIsEmpty ==
    LET link == EntryKind(fs, last.loc) = "link"
        unreadable == link /\ Lstat(fs, last.loc) \in undecodable
    IN  /\ (last.op = "get_link_target" /\ (~link \/ ~on_posix \/ unreadable))
              => (last.exc = "none" /\ last.val = EmptyTarget)
        /\ (last.op = "is_broken_link" /\ unreadable)
              => (last.exc = "none" /\ last.val = FALSE)

C15_Witness ==
    /\ last.op = "is_broken_link"
    /\ on_posix
    /\ EntryKind(fs, last.loc) = "link"
    /\ Lstat(fs, last.loc) \in undecodable
    /\ TargetMissing(fs, last.loc)
    /\ last.exc = "none"
    /\ last.val = FALSE

\* The classification and permission queries, and what each returns for
\* "nothing": no type, the empty string, or false.
QueryOps ==
    { "is_link", "is_file", "is_dir", "is_regular", "is_broken_link",
      "get_link_target", "get_type",
      "is_readable", "is_writable", "is_executable", "is_rwx" }

NegativeOf(op) ==
    CASE op = "get_type" -> None
      [] op = "get_link_target" -> EmptyTarget
      [] OTHER -> FALSE

\* C16: every classification and permission query, given the empty string or
\* a path where nothing exists, returns without raising and returns a
\* negative or empty value.
C16_NothingThereIsNegative ==
    (last.op \in QueryOps /\ EntryKind(fs, last.loc) = "none")
        => (last.exc = "none" /\ last.val = NegativeOf(last.op))

\* The same with get_type left out (it holds: get_type alone departs).
C16_ExceptGetType ==
    (last.op \in QueryOps \ { "get_type" } /\ EntryKind(fs, last.loc) = "none")
        => (last.exc = "none" /\ last.val = NegativeOf(last.op))

\* The short code and the long code of each category, and no type for both.
SameCategory ==
    { <<"l", "link">>, <<"f", "file">>, <<"d", "directory">>,
      <<"s", "special">>, <<None, None>> }

\* C20: the short and the long form of get_type for one location denote the
\* same category, and one is absent exactly when the other is.
C20_ShortAndLongAgree ==
    last.op = "get_type" =>
        LET other == get_type(fs, last.loc, ~last.arg)
            short_form == IF last.arg THEN last.val ELSE other
            long_form == IF last.arg THEN other ELSE last.val
        IN  <<short_form, long_form>> \in SameCategory

C20_Witness ==
    /\ last.op = "get_type"
    /\ last.arg = FALSE
    /\ last.val = "directory"
    /\ get_type(fs, last.loc, TRUE) = "d"

(* ----------------------- claims on the date stamp --------------------- *)

\* The UTC calendar day of each day number the times of Mtimes fall on.
CalendarDay(days) ==
    CASE days = -2 -> "1969-12-30"
      [] days = -1 -> "1969-12-31"
      [] days = 0 -> "1970-01-01"
      [] days = 1 -> "1970-01-02"
      [] days = 11016 -> "2000-02-29"
      [] days = 19782 -> "2024-02-29"
      [] days = 19783 -> "2024-03-01"

\* The day that contains a time: the whole days before it.
DayOf(t) == t.sec \div 86400

\* C19: the date stamp is the empty string for whatever is not a regular
\* file (a directory, a link, a special file, nothing) and, for a regular
\* file, the UTC calendar day that contains its modification time.
C19_DayContainingMtime ==
    last.op = "get_last_modified_date" =>
        last.val = IF EntryKind(fs, last.loc) = "file"
                   THEN CalendarDay(DayOf(mtime[Lstat(fs, last.loc)]))
                   ELSE ""

\* What holds of the date stamp: the claim, for modification times that are
\* not within half a microsecond of the next midnight.
C19_ExceptJustBeforeMidnight ==
    last.op = "get_last_modified_date" =>
        last.val = IF EntryKind(fs, last.loc) = "file"
                   THEN LET t == mtime[Lstat(fs, last.loc)] IN
                        IF t.sec % 86400 = 86399 /\ t.nsec > 999999500
                        THEN CalendarDay(DayOf(t) + 1)
                        ELSE CalendarDay(DayOf(t))
                   ELSE ""

(* ------------------ claims on errors in the counter -------------------- *)

\* The operating system call counter makes on the entry p fails: scandir on
\* a directory, getsize on a file whose size is asked for.
FailsAt(f, p, metric) ==
    /\ p \in failing
    /\ \/ f[p].kind = "dir"
       \/ f[p].kind = "file" /\ metric = "file_size"

\* The entries a call for (loc, metric) has to compute: those at or below
\* loc that have no stored result and no stored result above them up to loc.
ToCompute(f, memos, loc, metric) ==
    { p \in Entries :
        /\ IsPrefix(loc, p)
        /\ f[p].kind \in { "file", "dir" }
        /\ \A q \in PlainLocations :
              (IsPrefix(loc, q) /\ IsPrefix(q, p)) => <<q, metric>> \notin DOMAIN memos }

\* C17: a failure of scandir or getsize inside a counter call reaches the
\* caller; the failed call stores nothing for its own key nor for any
\* directory above the failure, what it stores is right, and what was stored
\* before stays as it was.
C17_ErrorsPropagateAndAreNotStored ==
    [][(ncalls' = ncalls + 1 /\ last'.loc # <<>>) =>
          LET loc == last'.loc
              metric == MetricOf(last'.op)
              broken == { p \in ToCompute(fs, cache, loc, metric) :
                            FailsAt(fs, p, metric) }
          IN  /\ (last'.exc = "OSError") <=> (broken # {})
              /\ last'.exc \in { "none", "OSError" }
              /\ broken # {} =>
                    /\ <<loc, metric>> \notin DOMAIN cache'
                    /\ \A k \in DOMAIN cache' \ DOMAIN cache :
                          /\ \A p \in broken : ~IsPrefix(k[1], p)
                          /\ cache'[k] = Expected(fs, k[1], k[2])
                    /\ \A k \in DOMAIN cache :
                          k \in DOMAIN cache' /\ cache'[k] = cache[k]]_vars

C17_Witness ==
    /\ last.op = "get_size"
    /\ last.loc = <<"r">>
    /\ last.exc = "OSError"
    /\ failing = { <<"r", "s", "b">> }
    /\ fs[<<"r", "a">>].kind = "file"
    /\ fs[<<"r", "a">>].size > 0
    /\ stored = { << <<"r", "a">>, "file_size" >> }
    /\ cache[<< <<"r", "a">>, "file_size" >>] = fs[<<"r", "a">>].size
    /\ << <<"r", "s">>, "file_size" >> \notin DOMAIN cache
    /\ << <<"r">>, "file_size" >> \notin DOMAIN cache

(* ------------------ claims on concurrent first calls ------------------- *)

\* What one call alone, on empty memos, returns and stores when scandir
\* yields in the order given.
Alone(loc, counting_function, order) ==
    memoized(fs, EmptyMemos, loc, counting_function, order)

\* C18: whatever the interleaving of two first calls for one location and
\* counting function, every stored result is the one a single call would
\* have stored; a thread that has returned has returned the value stored for
\* its arguments; and once both have returned, they returned the same value
\* and the memos are those a single call leaves.
C18_BothReturnTheStoredValue ==
    /\ \A args \in { threads[t].args : t \in Threads }, order \in Orders :
          LET alone == Alone(args[1], args[2], order).memos
          IN  \A k \in DOMAIN cache : k \in DOMAIN alone /\ cache[k] = alone[k]
    /\ \A t \in Threads :
          threads[t].done =>
              /\ threads[t].args \in DOMAIN cache
              /\ threads[t].val = cache[threads[t].args]
    /\ (\A t \in Threads : threads[t].done) =>
          /\ \A t, u \in Threads : threads[t].val = threads[u].val
          /\ \A args \in { threads[t].args : t \in Threads }, order \in Orders :
                cache = Alone(args[1], args[2], order).memos

C18_Witness ==
    /\ \A t \in Threads :
          /\ threads[t].done
          /\ threads[t].args = << <<"r">>, "file_size" >>
          /\ threads[t].val = 2
    /\ cache[<< <<"r">>, "file_size" >>] = 2
    /\ cache[<< <<"r", "s">>, "file_size" >>] = 1

(* ---------------------- claims on termination ------------------------- *)

\* C21: a counter call returns, whatever links the tree holds, and every
\* call it makes on the way is made by a call on a directory that is not a
\* link.
C21_TerminatesWithoutFollowingLinks ==
    /\ [](\A i \in 2..Len(threads["first"].stack) :
             EntryKind(fs, threads["first"].stack[i].loc) = "dir")
    /\ <>(threads["first"].done)

\* C21 witness: the count of r was returned where r/a is a link to r, a
\* directory above it, and r/s a link to itself.
C21_Witness ==
    /\ threads["first"].done
    /\ threads["first"].args = << <<"r">>, "file_count" >>
    /\ threads["first"].val = 0
    /\ fs[<<"r", "a">>] = LinkEntry(AbsR)
    /\ fs[<<"r", "s">>] = LinkEntry(RelS)
    /\ cache[<< <<"r", "a">>, "file_count" >>] = 0

====
